---- MODULE Spec2Model ----
(***************************************************************************)
(* Artisty gallery assistant: the intent-to-action pipeline of the four    *)
(* backends (main.py + agents.py, lambda_function.py + utils.py,           *)
(* lambda/lambda_function.py + lambda/utils.py, app.py).                   *)
(*                                                                         *)
(* Text is a sequence of one-character strings, so that lower-casing,      *)
(* stripping, splitting, joining and substring tests are computed, not     *)
(* assumed.  An inventory text is the sequence of its lines.               *)
(***************************************************************************)
EXTENDS Naturals, Sequences, FiniteSets, TLC

\* ------------------------------------------------------------------ text

UPPER == <<"A","B","C","D","E","F","G","H","I","J","K","L","M","N","O","P","Q","R","S","T","U","V","W","X","Y","Z">>
LOWER == <<"a","b","c","d","e","f","g","h","i","j","k","l","m","n","o","p","q","r","s","t","u","v","w","x","y","z">>
DIGITS == {"0","1","2","3","4","5","6","7","8","9"}

\* str.lower() and str.upper() on one character, as tables
LOWER_OF == [c \in {UPPER[i] : i \in 1..Len(UPPER)} |->
                LOWER[CHOOSE i \in 1..Len(UPPER) : UPPER[i] = c]]

UPPER_OF == [c \in {LOWER[i] : i \in 1..Len(LOWER)} |->
                UPPER[CHOOSE i \in 1..Len(LOWER) : LOWER[i] = c]]

LowerChar(c) == IF c \in DOMAIN LOWER_OF THEN LOWER_OF[c] ELSE c

UpperChar(c) == IF c \in DOMAIN UPPER_OF THEN UPPER_OF[c] ELSE c

\* str.lower()
Lower(s) == [i \in 1..Len(s) |-> LowerChar(s[i])]

\* str.upper()
Upper(s) == [i \in 1..Len(s) |-> UpperChar(s[i])]

\* the characters str.strip() and str.split() treat as whitespace
IsSpace(c) == c \in {" ", "\t", "\n", "\r"}

RECURSIVE LStrip(_)
LStrip(s) == IF s # <<>> /\ IsSpace(Head(s)) THEN LStrip(Tail(s)) ELSE s

RECURSIVE RStrip(_)
RStrip(s) ==
    IF s # <<>> /\ IsSpace(s[Len(s)]) THEN RStrip(SubSeq(s, 1, Len(s) - 1)) ELSE s

\* str.strip()
Strip(s) == RStrip(LStrip(s))

RECURSIVE LStripChars(_, _)
LStripChars(s, cs) ==
    IF s # <<>> /\ Head(s) \in cs THEN LStripChars(Tail(s), cs) ELSE s

RECURSIVE RStripChars(_, _)
RStripChars(s, cs) ==
    IF s # <<>> /\ s[Len(s)] \in cs
    THEN RStripChars(SubSeq(s, 1, Len(s) - 1), cs)
    ELSE s

\* str.strip(chars)
StripChars(s, cs) == RStripChars(LStripChars(s, cs), cs)

\* s.startswith(p)
StartsWith(s, p) == Len(p) <= Len(s) /\ SubSeq(s, 1, Len(p)) = p

\* s.find(sub) + 1: the first position of sub in s, 0 when absent
Find(s, sub) ==
    LET hits == {i \in 1..(Len(s) + 1) :
                    i + Len(sub) - 1 <= Len(s) /\ SubSeq(s, i, i + Len(sub) - 1) = sub}
    IN IF hits = {} THEN 0 ELSE CHOOSE i \in hits : \A j \in hits : i <= j

\* sub in s
Contains(s, sub) == Find(s, sub) # 0

\* s.split(sep): every piece
RECURSIVE Split(_, _)
Split(s, sep) ==
    LET i == Find(s, sep)
    IN IF i = 0 THEN <<s>>
       ELSE <<SubSeq(s, 1, i - 1)>> \o Split(SubSeq(s, i + Len(sep), Len(s)), sep)

\* s.split(sep, 1)
Split1(s, sep) ==
    LET i == Find(s, sep)
    IN IF i = 0 THEN <<s>>
       ELSE <<SubSeq(s, 1, i - 1), SubSeq(s, i + Len(sep), Len(s))>>

\* s.split(): the maximal runs of non-whitespace characters
RECURSIVE SplitWS(_)
SplitWS(s) ==
    LET t == LStrip(s)
        ends == {i \in 1..Len(t) : IsSpace(t[i])}
        e == IF ends = {} THEN Len(t) + 1 ELSE CHOOSE i \in ends : \A j \in ends : i <= j
    IN IF t = <<>> THEN <<>>
       ELSE <<SubSeq(t, 1, e - 1)>> \o SplitWS(SubSeq(t, e, Len(t)))

\* sep.join(parts)
RECURSIVE Join(_, _)
Join(parts, sep) ==
    IF parts = <<>> THEN <<>>
    ELSE IF Len(parts) = 1 THEN parts[1]
    ELSE parts[1] \o sep \o Join(Tail(parts), sep)

\* s.replace(old, "")
RECURSIVE Remove(_, _)
Remove(s, old) ==
    LET i == Find(s, old)
    IN IF i = 0 \/ old = <<>> THEN s
       ELSE SubSeq(s, 1, i - 1) \o Remove(SubSeq(s, i + Len(old), Len(s)), old)

\* x in list
InList(x, list) == \E i \in 1..Len(list) : list[i] = x

\* concatenation of a list of lists
RECURSIVE Flatten(_)
Flatten(lists) == IF lists = <<>> THEN <<>> ELSE Head(lists) \o Flatten(Tail(lists))

\* [f(x) for x in list if p(x)]
SelectMap(list, P(_), F(_)) ==
    Flatten([i \in 1..Len(list) |-> IF P(list[i]) THEN <<F(list[i])>> ELSE <<>>])

\* the elements of a list, as a set
Range(list) == {list[i] : i \in 1..Len(list)}

\* a function with every value computed, so that applying it looks one up
Tabulated(f) == f @@ <<>>

\* every ordering of a finite set (the iteration orders a Python set can have)
Orderings(S) ==
    {f \in [1..Cardinality(S) -> S] : \A i, j \in 1..Cardinality(S) : f[i] = f[j] => i = j}

\* ------------------------------------------------------------- literals

\* " "
SP == <<" ">>

\* " - "
SEP_DASH == <<" ","-"," ">>

\* ". "
SEP_DOT == <<"."," ">>

\* "- "
SEP_DASH2 == <<"-"," ">>

\* ","
COMMA == <<",">>

\* "=== COMPLETE INVENTORY ==="
INVENTORY_HEADER == <<"=","=","="," ","C","O","M","P","L","E","T","E"," ","I","N","V","E","N","T","O","R","Y"," ","=","=","=">>

\* "=== SEARCH KEYWORDS ==="
KEYWORDS_HEADER == <<"=","=","="," ","S","E","A","R","C","H"," ","K","E","Y","W","O","R","D","S"," ","=","=","=">>

\* "Countries:"
COUNTRIES_TAG == <<"C","o","u","n","t","r","i","e","s",":">>

\* "Styles:"
STYLES_TAG == <<"S","t","y","l","e","s",":">>

\* "Colors:"
COLORS_TAG == <<"C","o","l","o","r","s",":">>

\* "Themes:"
THEMES_TAG == <<"T","h","e","m","e","s",":">>

\* ------------------------------------------------------------ inventory

\* an art.txt in the documented format, line by line:
\*     === COMPLETE INVENTORY ===
\*     1. Gaze - $9 (Peru) - red
\*     2. Iris - $7 (Peru) - tan
\*     === SEARCH KEYWORDS ===
\*     Countries: Peru
\*     Themes: cheap
ART_TXT ==
    <<
       <<"=","=","="," ","C","O","M","P","L","E","T","E"," ","I","N","V","E","N","T","O","R","Y"," ","=","=","=">>,
       <<"1","."," ","G","a","z","e"," ","-"," ","$","9"," ","(","P","e","r","u",")"," ","-"," ","r","e","d">>,
       <<"2","."," ","I","r","i","s"," ","-"," ","$","7"," ","(","P","e","r","u",")"," ","-"," ","t","a","n">>,
       <<"=","=","="," ","S","E","A","R","C","H"," ","K","E","Y","W","O","R","D","S"," ","=","=","=">>,
       <<"C","o","u","n","t","r","i","e","s",":"," ","P","e","r","u">>,
       <<"T","h","e","m","e","s",":"," ","c","h","e","a","p">>
    >>

\* the text substituted when art.txt is absent (main.py, app.py, lambda/utils.py):
\*     Art inventory file not found.
NOT_FOUND_TXT ==
    <<
       <<"A","r","t"," ","i","n","v","e","n","t","o","r","y"," ","f","i","l","e"," ","n","o","t"," ","f","o","u","n","d",".">>
    >>

\* the text substituted when art.txt cannot be read (utils.py create_assistant):
\*     No inventory available
NO_INVENTORY_TXT ==
    <<
       <<"N","o"," ","i","n","v","e","n","t","o","r","y"," ","a","v","a","i","l","a","b","l","e">>
    >>

\* agents.py, lambda/utils.py: the artwork names of an inventory text, by
\* splitting each stripped line on " - " and on ". "
ExtractNameOfLine(raw) ==
    LET line == Strip(raw)
        left == Split(line, SEP_DASH)[1]
        name == Strip(Split1(left, SEP_DOT)[2])
    IN IF Contains(line, SEP_DOT) /\ Contains(line, SEP_DASH)
          /\ Contains(left, SEP_DOT) /\ name # <<>>
       THEN <<name>>
       ELSE <<>>

_extract_artwork_names(text) ==
    Flatten([i \in 1..Len(text) |-> ExtractNameOfLine(text[i])])

\* utils.py: re.match(r"\s*\d+\.\s*([^\-\n]+?)\s*-", line), then group(1).strip().
\* The group holds no "-", so it ends before the first "-" after the ordinal's
\* dot and needs one character there; what is kept is that stretch, stripped.
RegexNameOfLine(line) ==
    LET s == LStrip(line)
        nondigit == {i \in 1..Len(s) : s[i] \notin DIGITS}
        d == IF nondigit = {} THEN Len(s) + 1
             ELSE CHOOSE i \in nondigit : \A j \in nondigit : i <= j
        rest == SubSeq(s, d + 1, Len(s))
        dash == Find(rest, <<"-">>)
        name == Strip(SubSeq(rest, 1, dash - 1))
    IN IF d >= 2 /\ d <= Len(s) /\ s[d] = "." /\ dash >= 2 /\ name # <<>>
       THEN <<name>>
       ELSE <<>>

_parse_inventory_names(text) ==
    Flatten([i \in 1..Len(text) |-> RegexNameOfLine(text[i])])

\* app.py: [c.strip().lower() for c in line.replace(tag, '').split(',')] of the
\* last stripped line of the keywords section that starts with the tag
TagValues(lines, tag) ==
    LET hits == {i \in 1..Len(lines) : StartsWith(Strip(lines[i]), tag)}
        last == CHOOSE i \in hits : \A j \in hits : j <= i
        parts == Split(Remove(Strip(lines[last]), tag), COMMA)
    IN IF hits = {} THEN <<>>
       ELSE [i \in 1..Len(parts) |-> Lower(Strip(parts[i]))]

\* app.py: the words one inventory line adds to art_names and descriptive_words
ArtNameOfLine(line) ==
    LET name_part == Split(line, SEP_DASH)[1]
    IN IF Strip(line) # <<>> /\ Contains(line, SEP_DOT) /\ Contains(line, SEP_DASH)
          /\ Contains(name_part, SEP_DOT)
       THEN <<Lower(Strip(Split1(name_part, SEP_DOT)[2]))>>
       ELSE <<>>

LongWord(w) == Len(w) > 3

SameWord(w) == w

TrimWord(w) == StripChars(w, {"(", ")", ","})

LongTrimmed(w) == Len(TrimWord(w)) > 3

DescriptiveWordsOfLine(line) ==
    LET names == ArtNameOfLine(line)
        name_words == IF names = <<>> THEN <<>>
                      ELSE SelectMap(SplitWS(names[1]), LongWord, SameWord)
        desc_part == Split1(line, SEP_DASH)[2]
    IN IF Strip(line) # <<>> /\ Contains(line, SEP_DOT) /\ Contains(line, SEP_DASH)
       THEN name_words \o SelectMap(SplitWS(Lower(desc_part)), LongTrimmed, TrimWord)
       ELSE <<>>

\* the first line holding the header, 0 when there is none
HeaderLine(text, header) ==
    LET hits == {i \in 1..Len(text) : Contains(text[i], header)}
    IN IF hits = {} THEN 0 ELSE CHOOSE i \in hits : \A j \in hits : i <= j

\* the lines after line `from` up to the next line holding the header
SectionAfter(text, from, header) ==
    LET rest == SubSeq(text, from + 1, Len(text))
        stop == HeaderLine(rest, header)
    IN IF stop = 0 THEN rest ELSE SubSeq(rest, 1, stop - 1)

\* app.py: the valid search keywords of an inventory text.  Without the
\* "=== SEARCH KEYWORDS ===" header the four category lists are never
\* assigned and the sum that combines them raises (raised = TRUE).
get_valid_search_keywords_from_inventory(text) ==
    LET k == HeaderLine(text, KEYWORDS_HEADER)
        v == HeaderLine(text, INVENTORY_HEADER)
        kw_lines == SectionAfter(text, k, KEYWORDS_HEADER)
        countries == TagValues(kw_lines, COUNTRIES_TAG)
        styles == TagValues(kw_lines, STYLES_TAG)
        colors == TagValues(kw_lines, COLORS_TAG)
        themes == TagValues(kw_lines, THEMES_TAG)
        inv_lines == IF v = 0 \/ k = 0 THEN <<>>
                     ELSE SectionAfter(text, v, KEYWORDS_HEADER)
        art_names == Flatten([i \in 1..Len(inv_lines) |-> ArtNameOfLine(inv_lines[i])])
        descriptive_words ==
            Flatten([i \in 1..Len(inv_lines) |-> DescriptiveWordsOfLine(inv_lines[i])])
        all_keywords == countries \o styles \o colors \o themes \o art_names
                        \o descriptive_words
    IN IF k = 0
       THEN [raised |-> TRUE, keywords |-> {}]
       ELSE [raised |-> FALSE,
             keywords |-> {Strip(all_keywords[i]) : i \in
                              {j \in 1..Len(all_keywords) : Len(Strip(all_keywords[j])) > 2}}]

\* ------------------------------------------------- what the LLM may say

\* the empty string ""
EMPTY == <<>>

\* "Gaze", an artwork of ART_TXT
GAZE == <<"G","a","z","e">>

\* "Fake", an artwork no inventory holds
FAKE == <<"F","a","k","e">>

\* "cart"
CART == <<"c","a","r","t">>

\* "home"
HOME == <<"h","o","m","e">>

\* "shop", a destination that is neither cart nor home
SHOP == <<"s","h","o","p">>

\* "start"
START == <<"s","t","a","r","t">>

\* "art-collection"
ART_COLLECTION == <<"a","r","t","-","c","o","l","l","e","c","t","i","o","n">>

\* "QUICK_VIEW:"
QUICK_VIEW_MARKER == <<"Q","U","I","C","K","_","V","I","E","W",":">>

\* "ADD_TO_CART:"
ADD_TO_CART_MARKER == <<"A","D","D","_","T","O","_","C","A","R","T",":">>

\* "GO_TO_CART"
GO_TO_CART_MARKER == <<"G","O","_","T","O","_","C","A","R","T">>

\* "GO_TO_HOME"
GO_TO_HOME_MARKER == <<"G","O","_","T","O","_","H","O","M","E">>

\* "PROCEED_TO_CHECKOUT"
PROCEED_TO_CHECKOUT_MARKER == <<"P","R","O","C","E","E","D","_","T","O","_","C","H","E","C","K","O","U","T">>

\* "art_suggestion"
ART_SUGGESTION_LABEL == <<"a","r","t","_","s","u","g","g","e","s","t","i","o","n">>

\* "general_info"
GENERAL_INFO_LABEL == <<"g","e","n","e","r","a","l","_","i","n","f","o">>

\* "both"
BOTH_LABEL == <<"b","o","t","h">>

\* "NONE"
NONE_REPLY == <<"N","O","N","E">>

\* "I'm having a bit of trouble right now. Let me try to help you directly! "
TROUBLE_TXT == <<"I","'","m"," ","h","a","v","i","n","g"," ","a"," ","b","i","t"," ","o","f"," ","t","r","o","u","b","l","e"," ","r","i","g","h","t"," ","n","o","w","."," ","L","e","t"," ","m","e"," ","t","r","y"," ","t","o"," ","h","e","l","p"," ","y","o","u"," ","d","i","r","e","c","t","l","y","!"," ">>

\* str(e) of the exception an LLM call raises
ERR == <<"t","i","m","e","o","u","t">>

\* the final answers the agent may give (result["output"]): no text, a
\* sentence naming an artwork, and texts with action markers
ReplyTexts ==
    {EMPTY,
     <<"t","r","y"," ","G","a","z","e">>,
     <<"A","D","D","_","T","O","_","C","A","R","T",":","F","a","k","e">>,
     <<"Q","U","I","C","K","_","V","I","E","W",":","G","a","z","e","."," ","G","O","_","T","O","_","C","A","R","T"," ","G","O","_","T","O","_","H","O","M","E"," ","P","R","O","C","E","E","D","_","T","O","_","C","H","E","C","K","O","U","T">>}

\* the replies of the classification call: a label, a label in another
\* spelling, and a word that is no label
ClassifierReplies ==
    {ART_SUGGESTION_LABEL,
     GENERAL_INFO_LABEL,
     <<" ","B","o","t","h">>,
     <<"m","a","y","b","e">>}

\* the replies of the extraction call: NONE in another spelling, a numbered
\* and bulleted list, and a line of five words
ExtractionReplies ==
    {<<"n","o","n","e">>,
     <<"1","."," ","G","a","z","e","\n","-"," ","F","a","k","e">>,
     <<"a"," ","b"," ","c"," ","d"," ","e">>}

\* an LLM call either raises or returns a content
LLMReplies(contents) ==
    {[raised |-> TRUE, content |-> EMPTY]}
    \cup {[raised |-> FALSE, content |-> c] : c \in contents}

\* stands for a call that was not made; no reply equals it
NoCall == [raised |-> FALSE, content |-> <<"(not called)">>]

\* Python's None and a present value
None == <<>>

Some(v) == <<v>>

\* ---------------------------------------------------------------- bounds

\* the most tool calls the agent makes in one turn
MaxSteps == 2

\* the most artworks the search LLM lists in one reply
MaxArtworks == 2

\* the budget of the conversation memory, counted in stored messages: it
\* stands for max_token_limit, with every message weighing as much
MemoryBudget == 2

\* ------------------------------------------------------------- agents.py

\* the tool calls the agent of agents.py may record as intermediate steps:
\* arg is the value of the call's artwork_name / destination / text input.
\* The tool names are those _actions_from_steps tells apart, and one it ignores.
AgentSteps ==
    {[tool |-> "quick_view", arg |-> FAKE],
     [tool |-> "quick_view_artwork", arg |-> EMPTY],
     [tool |-> "add_to_cart", arg |-> GAZE],
     [tool |-> "navigate", arg |-> CART],
     [tool |-> "navigate", arg |-> SHOP],
     [tool |-> "go_to_cart", arg |-> EMPTY],
     [tool |-> "go_to_home", arg |-> EMPTY],
     [tool |-> "proceed_to_checkout", arg |-> EMPTY],
     [tool |-> "search_inventory", arg |-> EMPTY]}

Action(type, value) == [type |-> type, value |-> value]

\* agents.py: the action one intermediate step maps to, if any
ActionOfStep(step) ==
    CASE step.tool \in {"quick_view", "quick_view_artwork"} ->
            IF step.arg # EMPTY THEN <<Action("quick_view", step.arg)>> ELSE <<>>
      [] step.tool = "add_to_cart" ->
            IF step.arg # EMPTY THEN <<Action("add_to_cart", step.arg)>> ELSE <<>>
      [] step.tool = "navigate" ->
            IF step.arg \in {CART, HOME} THEN <<Action("navigate", step.arg)>> ELSE <<>>
      [] step.tool = "go_to_cart" -> <<Action("navigate", CART)>>
      [] step.tool = "go_to_home" -> <<Action("navigate", HOME)>>
      [] step.tool \in {"proceed_to_checkout", "checkout"} -> <<Action("checkout", START)>>
      [] OTHER -> <<>>

_actions_from_steps(steps) ==
    Flatten([i \in 1..Len(steps) |-> ActionOfStep(steps[i])])

\* re.search(marker + r"([^\n.!?]+)", text): the first place where the marker
\* is followed by a character other than newline . ! ?, and the longest run
\* of such characters from there, stripped
MarkerAction(text, marker, a_type) ==
    LET stop == {"\n", ".", "!", "?"}
        n == Len(marker)
        hits == {i \in 1..Len(text) :
                    /\ i + n <= Len(text)
                    /\ SubSeq(text, i, i + n - 1) = marker
                    /\ text[i + n] \notin stop}
        at == CHOOSE i \in hits : \A j \in hits : i <= j
        ends == {j \in (at + n)..Len(text) : text[j] \in stop}
        e == IF ends = {} THEN Len(text) + 1
             ELSE CHOOSE j \in ends : \A k \in ends : j <= k
    IN IF hits = {} THEN <<>>
       ELSE <<Action(a_type, Strip(SubSeq(text, at + n, e - 1)))>>

_parse_web_actions(response_text) ==
    MarkerAction(response_text, QUICK_VIEW_MARKER, "quick_view")
    \o MarkerAction(response_text, ADD_TO_CART_MARKER, "add_to_cart")
    \o (IF Contains(response_text, GO_TO_CART_MARKER)
        THEN <<Action("navigate", CART)>> ELSE <<>>)
    \o (IF Contains(response_text, GO_TO_HOME_MARKER)
        THEN <<Action("navigate", HOME)>> ELSE <<>>)
    \o (IF Contains(response_text, PROCEED_TO_CHECKOUT_MARKER)
        THEN <<Action("checkout", START)>> ELSE <<>>)

IMPERATIVE == {"add_to_cart", "quick_view", "navigate", "checkout"}

\* any(a.get("type") in [...] for a in web_actions)
HasType(web_actions, types) ==
    \E i \in 1..Len(web_actions) : web_actions[i].type \in types

\* a variant of the default search that does not ask for extracted names; C7
\* tells the two apart
AddDefaultSearch_AnyNames(web_actions, artwork_names, intent) ==
    IF /\ ~HasType(web_actions, IMPERATIVE)
       /\ intent \in {"art_suggestion", "both"}
       /\ ~HasType(web_actions, {"search"})
    THEN web_actions \o <<Action("search", Lower(Join(artwork_names, SP))),
                          Action("scroll", ART_COLLECTION)>>
    ELSE web_actions

\* agents.py: the default search and scroll, added to a pure suggestion only
AddDefaultSearch(web_actions, artwork_names, intent) ==
    IF /\ ~HasType(web_actions, IMPERATIVE)
       /\ artwork_names # <<>>
       /\ intent \in {"art_suggestion", "both"}
       /\ ~HasType(web_actions, {"search"})
    THEN web_actions \o <<Action("search", Lower(Join(artwork_names, SP))),
                          Action("scroll", ART_COLLECTION)>>
    ELSE web_actions

\* the first 30 names
Prefix30(names) == SubSeq(names, 1, IF Len(names) < 30 THEN Len(names) ELSE 30)

\* a fallback that answers both when the response names an artwork
FallbackIntent_Both(response, names) ==
    IF \E i \in 1..Len(Prefix30(names)) : Contains(Lower(response), Lower(names[i]))
    THEN "both"
    ELSE "general_info"

\* agents.py, lambda/utils.py: the fallback label, by looking for artwork
\* names in the response
FallbackIntent(response, names) ==
    IF \E i \in 1..Len(Prefix30(names)) : Contains(Lower(response), Lower(names[i]))
    THEN "art_suggestion"
    ELSE "general_info"

\* agents.py, lambda/utils.py: reply is what the classification call returned
_classify_intent(response, names, reply) ==
    LET intent == Lower(Strip(reply.content))
    IN IF reply.raised THEN FallbackIntent(response, names)
       ELSE IF intent = ART_SUGGESTION_LABEL THEN "art_suggestion"
       ELSE IF intent = GENERAL_INFO_LABEL THEN "general_info"
       ELSE IF intent = BOTH_LABEL THEN "both"
       ELSE FallbackIntent(response, names)

\* line.split('. ', 1)[-1].split('- ', 1)[-1].strip()
CleanLine(line) ==
    LET a == Split1(line, SEP_DOT)
        b == Split1(a[Len(a)], SEP_DASH2)
    IN Strip(b[Len(b)])

NonBlank(line) == Strip(line) # <<>>

KeepName(line) == CleanLine(line) # <<>> /\ Len(SplitWS(CleanLine(line))) <= 4

\* agents.py, lambda/utils.py: reply is what the extraction call returned
_extract_suggested_artworks(reply) ==
    LET extracted_text == Strip(reply.content)
        lines == SelectMap(Split(extracted_text, <<"\n">>), NonBlank, Strip)
    IN IF reply.raised \/ Upper(extracted_text) = NONE_REPLY \/ extracted_text = <<>>
       THEN <<>>
       ELSE SelectMap(lines, KeepName, CleanLine)

\* every text a turn may carry as its response
ResponseTexts == ReplyTexts \cup {TROUBLE_TXT \o ERR}

\* the name lists an assistant may hold
NameLists == {_extract_artwork_names(ART_TXT), _extract_artwork_names(NOT_FOUND_TXT)}

\* The functions of the LLM's replies, tabulated once over the replies above
ClassifyTable ==
    Tabulated([t \in ResponseTexts, n \in NameLists, r \in LLMReplies(ClassifierReplies) |->
                  _classify_intent(t, n, r)])

ExtractTable ==
    Tabulated([r \in LLMReplies(ExtractionReplies) |-> _extract_suggested_artworks(r)])

MarkerTable == Tabulated([t \in ResponseTexts |-> _parse_web_actions(t)])

WordTable == Tabulated([t \in ResponseTexts |-> SplitWS(t)])

\* one yielded event of process_message_stream
ActionsEvent(intent, artwork_names, web_actions) ==
    [chunk |-> EMPTY, is_complete |-> FALSE, web_actions |-> web_actions,
     intent |-> Some(intent), suggested_artworks |-> artwork_names,
     full_response |-> None, actions_only |-> TRUE]

\* a word event that carries the actions again after they were sent
WordEvent_Resend(word, last, response_text, intent, artwork_names, web_actions, actions_sent) ==
    [chunk |-> word \o SP,
     is_complete |-> last,
     web_actions |-> web_actions,
     intent |-> IF last THEN Some(intent) ELSE None,
     suggested_artworks |-> IF last THEN artwork_names ELSE <<>>,
     full_response |-> IF last THEN Some(response_text) ELSE None]

WordEvent(word, last, response_text, intent, artwork_names, web_actions, actions_sent) ==
    [chunk |-> word \o SP,
     is_complete |-> last,
     web_actions |-> IF actions_sent THEN <<>> ELSE web_actions,
     intent |-> IF last THEN Some(intent) ELSE None,
     suggested_artworks |-> IF last THEN artwork_names ELSE <<>>,
     full_response |-> IF last THEN Some(response_text) ELSE None]

ErrorEvent(error_response) ==
    [chunk |-> error_response, is_complete |-> TRUE, web_actions |-> <<>>,
     intent |-> Some("general_info"), suggested_artworks |-> <<>>,
     full_response |-> Some(error_response)]

\* agents.py: the events process_message_stream yields, in order
StreamEvents(response_text, intent, artwork_names, web_actions) ==
    LET words == WordTable[response_text]
        actions_sent == web_actions # <<>>
    IN (IF actions_sent THEN <<ActionsEvent(intent, artwork_names, web_actions)>>
        ELSE <<>>)
       \o [i \in 1..Len(words) |->
             WordEvent(words[i], i = Len(words), response_text, intent,
                       artwork_names, web_actions, actions_sent)]

\* the result of one turn: raised tells that the call raised instead of
\* returning
Turn(variant, names, intent, response, web_actions) ==
    [variant |-> variant, raised |-> FALSE, names |-> names, intent |-> intent,
     response |-> response, web_actions |-> web_actions]

Raised(variant) ==
    [variant |-> variant, raised |-> TRUE, names |-> <<>>, intent |-> "none",
     response |-> EMPTY, web_actions |-> <<>>]

NoTurn ==
    [variant |-> "none", raised |-> FALSE, names |-> <<>>, intent |-> "none",
     response |-> EMPTY, web_actions |-> <<>>]

\* the names handed to the caller: whatever the extraction call listed when
\* the intent asks for names
ExtractedNames(intent, extract_reply) ==
    IF intent \in {"art_suggestion", "both"}
    THEN ExtractTable[extract_reply]
    ELSE <<>>

\* the extraction call is made only for these intents
ExtractionCalls(intent) ==
    IF intent \in {"art_suggestion", "both"}
    THEN LLMReplies(ExtractionReplies)
    ELSE {NoCall}

\* agents.py: the actions of a non-streaming turn: those of the tool steps,
\* else those of the markers in the text, then the default search
SyncActions(response_text, tool_steps, artwork_names, intent) ==
    LET from_steps == _actions_from_steps(tool_steps)
        web_actions == IF from_steps = <<>> THEN MarkerTable[response_text]
                       ELSE from_steps
    IN AddDefaultSearch(web_actions, artwork_names, intent)

\* agents.py: the actions of a streaming turn: those of the tool steps, then
\* the default search
StreamActions(tool_steps, artwork_names, intent) ==
    AddDefaultSearch(_actions_from_steps(tool_steps), artwork_names, intent)

\* -------------------------------------------------------------- utils.py

\* "red", a search query
RED == <<"r","e","d">>

\* " Iris ", an artwork name with blanks around it
PADDED_IRIS == <<" ","I","r","i","s"," ">>

\* "no luck", a reply that says nothing was found
NO_LUCK == <<"n","o"," ","l","u","c","k">>

\* "sure", a final answer of the planner
SURE == <<"s","u","r","e">>

\* "I couldn't find any specific artworks related to "
COULD_NOT_FIND_PRE == <<"I"," ","c","o","u","l","d","n","'","t"," ","f","i","n","d"," ","a","n","y"," ","s","p","e","c","i","f","i","c"," ","a","r","t","w","o","r","k","s"," ","r","e","l","a","t","e","d"," ","t","o"," ">>

\* " in our inventory. Would you like to explore some alternatives?"
COULD_NOT_FIND_POST == <<" ","i","n"," ","o","u","r"," ","i","n","v","e","n","t","o","r","y","."," ","W","o","u","l","d"," ","y","o","u"," ","l","i","k","e"," ","t","o"," ","e","x","p","l","o","r","e"," ","s","o","m","e"," ","a","l","t","e","r","n","a","t","i","v","e","s","?">>

\* "I'm sorry - I couldn't produce a structured recommendation just now. Please rephrase your request or try again." (the dash is an em dash in the source)
NOT_STRUCTURED_TXT == <<"I","'","m"," ","s","o","r","r","y"," ","-"," ","I"," ","c","o","u","l","d","n","'","t"," ","p","r","o","d","u","c","e"," ","a"," ","s","t","r","u","c","t","u","r","e","d"," ","r","e","c","o","m","m","e","n","d","a","t","i","o","n"," ","j","u","s","t"," ","n","o","w","."," ","P","l","e","a","s","e"," ","r","e","p","h","r","a","s","e"," ","y","o","u","r"," ","r","e","q","u","e","s","t"," ","o","r"," ","t","r","y"," ","a","g","a","i","n",".">>

\* "I found some artworks that might interest you."
FOUND_SOME_TXT == <<"I"," ","f","o","u","n","d"," ","s","o","m","e"," ","a","r","t","w","o","r","k","s"," ","t","h","a","t"," ","m","i","g","h","t"," ","i","n","t","e","r","e","s","t"," ","y","o","u",".">>

\* "I'm having trouble searching right now. Please try again. (Error: "
SEARCH_TROUBLE_PRE == <<"I","'","m"," ","h","a","v","i","n","g"," ","t","r","o","u","b","l","e"," ","s","e","a","r","c","h","i","n","g"," ","r","i","g","h","t"," ","n","o","w","."," ","P","l","e","a","s","e"," ","t","r","y"," ","a","g","a","i","n","."," ","(","E","r","r","o","r",":"," ">>

\* ")"
CLOSE_PAREN == <<")">>

\* "I'd be happy to help you!"
HAPPY_TXT == <<"I","'","d"," ","b","e"," ","h","a","p","p","y"," ","t","o"," ","h","e","l","p"," ","y","o","u","!">>

\* "I encountered an error: "
ENCOUNTERED_PRE == <<"I"," ","e","n","c","o","u","n","t","e","r","e","d"," ","a","n"," ","e","r","r","o","r",":"," ">>

\* the words that tell a reply already says nothing was found
NEGATIVE_WORDS ==
    {<<"n","o"," ">>,
     <<"c","o","u","l","d","n","'","t">>,
     <<"c","a","n","n","o","t">>,
     <<"d","i","d","n","'","t"," ","f","i","n","d">>,
     <<"d","o","n","'","t"," ","h","a","v","e">>}

\* the final answers utils.py's planner may give
PlannerTexts == {EMPTY, SURE}

\* the most names utils.py keeps from one search (artwork_names[:6])
LAST_SEARCH_CAP == 6

\* the most names utils.py keeps in recommended_history
HISTORY_CAP == 50

\* the first n elements of a list (list[:n])
Prefix(list, n) == SubSeq(list, 1, IF Len(list) < n THEN Len(list) ELSE n)

\* the last n elements of a list (list[-n:])
Suffix(list, n) ==
    SubSeq(list, (IF Len(list) < n THEN 0 ELSE Len(list) - n) + 1, Len(list))

\* the lists of at most n elements of S
SeqsUpTo(S, n) == UNION {[1..k -> S] : k \in 0..n}

\* the names the search call may list
ArtworkChoices == {GAZE, PADDED_IRIS, FAKE}

\* the outcomes of the search tool's LLM calls: both calls raise; the
\* JSON-mode call raises and the plain call answers; the answer is not JSON;
\* the answer is a JSON object with a response and a list of artworks, one
\* of them longer than the tool keeps
SearchReplies ==
    {[json_mode_raised |-> TRUE, raised |-> TRUE, json |-> FALSE,
      response |-> EMPTY, artworks |-> <<>>],
     [json_mode_raised |-> FALSE, raised |-> FALSE, json |-> TRUE,
      response |-> EMPTY, artworks |-> [i \in 1..(LAST_SEARCH_CAP + 1) |-> GAZE]],
     [json_mode_raised |-> TRUE, raised |-> FALSE, json |-> TRUE,
      response |-> EMPTY, artworks |-> <<GAZE>>],
     [json_mode_raised |-> FALSE, raised |-> FALSE, json |-> FALSE,
      response |-> EMPTY, artworks |-> <<>>]}
    \cup {[json_mode_raised |-> FALSE, raised |-> FALSE, json |-> TRUE,
           response |-> r, artworks |-> a] :
                r \in {EMPTY, NO_LUCK}, a \in SeqsUpTo(ArtworkChoices, MaxArtworks)}

\* a validation that keeps every stripped name, in the inventory or not
ValidatedNames_Unchecked(artworks, names) ==
    LET Named(n) == n # EMPTY /\ Strip(n) # EMPTY
    IN SelectMap(artworks, Named, Strip)

\* utils.py: the names of a parsed reply that are kept: stripped, non-empty
\* and in the inventory
ValidatedNames(artworks, names) ==
    LET Named(n) == n # EMPTY /\ Strip(n) # EMPTY
        stripped == SelectMap(artworks, Named, Strip)
        Known(n) == InList(n, names)
        Same(n) == n
    IN SelectMap(stripped, Known, Same)

\* utils.py: recommended_history after a search that found last
UpdatedHistory(history, last) ==
    LET Add(h, n) == IF InList(n, h) THEN h ELSE Append(h, n)
        AddAll[i \in 0..Len(last)] == IF i = 0 THEN history
                                      ELSE Add(AddAll[i - 1], last[i])
        all == AddAll[Len(last)]
    IN IF Len(all) > HISTORY_CAP THEN Suffix(all, HISTORY_CAP) ELSE all

\* utils.py: the LLM invocations of one search, each as whether it raised:
\* the JSON-mode call, and the plain call made when the JSON-mode call raised
SearchInvocations(reply) ==
    IF reply.json_mode_raised THEN <<TRUE, reply.raised>> ELSE <<FALSE>>

\* utils.py: _search_inventory_tool, as the text it returns, the two fields
\* it leaves behind and the LLM invocations it made
_search_inventory_tool(query, reply, names, history) ==
    IF reply.raised
    THEN [observation |-> SEARCH_TROUBLE_PRE \o ERR \o CLOSE_PAREN,
          last |-> <<>>, history |-> history,
          invocations |-> SearchInvocations(reply)]
    ELSE LET found == IF reply.json THEN ValidatedNames(reply.artworks, names)
                      ELSE <<>>
             lowered == Lower(reply.response)
             part == CASE ~reply.json -> NOT_STRUCTURED_TXT
                       [] reply.json /\ found = <<>>
                          /\ \A kw \in NEGATIVE_WORDS : ~Contains(lowered, kw) ->
                             COULD_NOT_FIND_PRE \o query \o COULD_NOT_FIND_POST
                       [] OTHER -> reply.response
             response_part == IF part = EMPTY THEN FOUND_SOME_TXT ELSE part
             last == Prefix(found, LAST_SEARCH_CAP)
         IN [observation |-> response_part, last |-> last,
             history |-> UpdatedHistory(history, last),
             invocations |-> SearchInvocations(reply)]

\* the tool calls of utils.py's planner other than a search
UtilsSteps ==
    {[tool |-> "quick_view", arg |-> FAKE, observation |-> EMPTY],
     [tool |-> "quick_view", arg |-> EMPTY, observation |-> EMPTY],
     [tool |-> "add_to_cart", arg |-> GAZE, observation |-> EMPTY],
     [tool |-> "navigate", arg |-> CART, observation |-> EMPTY],
     [tool |-> "navigate", arg |-> SHOP, observation |-> EMPTY],
     [tool |-> "checkout", arg |-> EMPTY, observation |-> EMPTY]}

\* utils.py: the actions one tool step maps to; last is _last_search_artworks
\* as it is when the steps are mapped
UtilsActionsOfStep(step, last) ==
    CASE step.tool \in {"quick_view", "add_to_cart", "navigate"} ->
            IF step.arg # EMPTY THEN <<Action(step.tool, step.arg)>> ELSE <<>>
      [] step.tool = "checkout" -> <<[type |-> "checkout"]>>
      [] step.tool = "search_inventory" ->
            IF last # <<>>
            THEN <<Action("search", Join(last, SP)), Action("scroll", ART_COLLECTION)>>
            ELSE <<Action("scroll", ART_COLLECTION)>>
      [] OTHER -> <<>>

\* utils.py: the web actions of all tool steps, in order
UtilsActions(tool_steps, last) ==
    Flatten([i \in 1..Len(tool_steps) |-> UtilsActionsOfStep(tool_steps[i], last)])

\* utils.py: the text of the turn: the last search's observation if there was
\* a search, else the planner's output, else a stock sentence
UtilsResponse(planner_output, tool_steps) ==
    LET searches == {i \in 1..Len(tool_steps) : tool_steps[i].tool = "search_inventory"}
        output == IF searches = {} THEN planner_output
                  ELSE tool_steps[CHOOSE i \in searches : \A j \in searches : j <= i].observation
    IN IF output = EMPTY THEN HAPPY_TXT ELSE output
\* ---------------------------------------------------------------- app.py

\* "SEARCH_TRIGGER:"
SEARCH_TRIGGER_MARKER == <<"S","E","A","R","C","H","_","T","R","I","G","G","E","R",":">>

\* "authentication"
AUTHENTICATION == <<"a","u","t","h","e","n","t","i","c","a","t","i","o","n">>

\* "rate limit"
RATE_LIMIT == <<"r","a","t","e"," ","l","i","m","i","t">>

\* str(e) of an authentication error
ERR_AUTH == <<"A","u","t","h","e","n","t","i","c","a","t","i","o","n"," ","f","a","i","l","e","d">>

\* str(e) of a rate-limit error
ERR_RATE == <<"R","a","t","e"," ","l","i","m","i","t"," ","e","x","c","e","e","d","e","d">>

\* "hi", a user message
HI == <<"h","i">>

\* the replies of the keyword-selector call: a keyword, the same with capitals
\* and blanks around it, a misspelt keyword, a part of several keywords, a word
\* that holds a keyword, nothing, and a keyword with a capital
KeywordReplies ==
    {<<"c","h","e","a","p">>,
     <<" ","C","h","e","a","p"," ">>,
     <<"c","h","e","e","p">>,
     <<"e">>,
     <<"g","a","z","e","s">>,
     <<>>,
     <<"C","h","e","a","p">>}

\* the texts parse_search_triggers may be given
TriggerTexts ==
    {<<"o","k">>,
     <<"S","E","A","R","C","H","_","T","R","I","G","G","E","R",":","G","a","z","e","s">>,
     <<"S","E","A","R","C","H","_","T","R","I","G","G","E","R",":">>,
     <<"h","i","\n","S","E","A","R","C","H","_","T","R","I","G","G","E","R",":"," ","c","h","e","a","p"," ","\n","S","E","A","R","C","H","_","T","R","I","G","G","E","R",":","i","r","i","s">>,
     <<"S","E","A","R","C","H","_","T","R","I","G","G","E","R",":","c","h","e","e","p">>,
     <<"S","E","A","R","C","H","_","T","R","I","G","G","E","R",":","e">>}

\* the answers of the first pass
FirstPassTexts == {<<" ","t","r","y"," ","G","a","z","e"," ">>}

\* a variant of chat()'s keyword validation that accepts the last related
\* entry where the code accepts the first; C3 tells the two apart
ValidatedKeyword_Last(content, kws) ==
    LET raw_keyword == Lower(Strip(content))
        Related(k) == Contains(k, raw_keyword) \/ Contains(raw_keyword, k)
        Same(k) == k
        partial == SelectMap(kws, Related, Same)
        keyword == IF InList(raw_keyword, kws) THEN raw_keyword ELSE EMPTY
    IN IF keyword = EMPTY /\ raw_keyword # EMPTY
       THEN IF partial # <<>> THEN partial[Len(partial)] ELSE EMPTY
       ELSE keyword

\* app.py: the keyword chat() accepts for the selector's reply, EMPTY when it
\* accepts none; kws is the keyword set in iteration order
ValidatedKeyword(content, kws) ==
    LET raw_keyword == Lower(Strip(content))
        Related(k) == Contains(k, raw_keyword) \/ Contains(raw_keyword, k)
        Same(k) == k
        partial == SelectMap(kws, Related, Same)
        keyword == IF InList(raw_keyword, kws) THEN raw_keyword ELSE EMPTY
    IN IF keyword = EMPTY /\ raw_keyword # EMPTY
       THEN IF partial # <<>> THEN partial[1] ELSE EMPTY
       ELSE keyword

\* app.py: the web actions chat() attaches for a keyword
KeywordActions(keyword) ==
    IF keyword # EMPTY
    THEN <<Action("search", keyword), Action("scroll", ART_COLLECTION)>>
    ELSE <<>>

\* app.py: the search term parse_search_triggers reads: what follows the
\* marker on the first line that has one, stripped and lower-cased; None when
\* no line has the marker
TriggerTerm(response_text) ==
    LET lines == Split(response_text, <<"\n">>)
        hits == {i \in 1..Len(lines) : Contains(lines[i], SEARCH_TRIGGER_MARKER)}
        line == lines[CHOOSE i \in hits : \A j \in hits : i <= j]
    IN IF hits = {} THEN None
       ELSE Some(Lower(Strip(Split(line, SEARCH_TRIGGER_MARKER)[2])))

\* app.py: the web actions parse_search_triggers returns for a text; an empty
\* term is not set aside
TriggerActions(response_text, kws) ==
    LET term == TriggerTerm(response_text)
        search_term == term[1]
        Related(k) == Contains(k, search_term) \/ Contains(search_term, k)
        Same(k) == k
        partial_matches == SelectMap(kws, Related, Same)
    IN IF term = None THEN <<>>
       ELSE IF InList(search_term, kws)
       THEN <<Action("search", search_term), Action("scroll", ART_COLLECTION)>>
       ELSE IF partial_matches # <<>>
       THEN <<Action("search", partial_matches[1]), Action("scroll", ART_COLLECTION)>>
       ELSE <<>>

\* app.py: the status chat() answers with when a call raised with message
ErrorStatus(message) ==
    IF Contains(Lower(message), AUTHENTICATION) THEN 401
    ELSE IF Contains(Lower(message), RATE_LIMIT) THEN 429
    ELSE 500

\* the outcomes of an OpenAI call in app.py: an error with its message, or a
\* completion with its content
Completions(contents) ==
    {[raised |-> TRUE, content |-> m] : m \in {ERR_AUTH, ERR_RATE, ERR}}
    \cup {[raised |-> FALSE, content |-> c] : c \in contents}

\* the keyword tables of the model's replies and orders, computed once
KeywordsOf ==
    Tabulated([t \in {ART_TXT, NOT_FOUND_TXT} |-> get_valid_search_keywords_from_inventory(t)])

\* the iteration orders the keyword set of each inventory text can have
KeywordOrders ==
    Tabulated([t \in {ART_TXT, NOT_FOUND_TXT} |->
                  IF KeywordsOf[t].raised THEN {<<>>} ELSE Orderings(KeywordsOf[t].keywords)])

KeywordTable ==
    Tabulated([c \in KeywordReplies, kws \in KeywordOrders[ART_TXT] |->
                  ValidatedKeyword(c, kws)])

TriggerTable ==
    Tabulated([t \in TriggerTexts, kws \in KeywordOrders[ART_TXT] |->
                  TriggerActions(t, kws)])


\* ------------------------------------------------------- the HTTP handlers

\* a message of blanks only
BLANK == <<" ", " ">>

\* the messages of the model's chat requests; a missing message and an empty
\* one are both falsy and read alike by every handler
Messages == {EMPTY, BLANK, HI}

\* main.py, lambda_function.py, lambda/lambda_function.py: the start of the
\* response text of a turn whose assistant call raised
TECHNICAL_TXT ==
    <<"I"," ","a","p","o","l","o","g","i","z","e",","," ","b","u","t"," ","I","'","m"," ","h","a","v","i","n","g"," ","t","e","c","h","n","i","c","a","l"," ","d","i","f","f","i","c","u","l","t","i","e","s","."," ","P","l","e","a","s","e"," ","t","r","y"," ","a","g","a","i","n","!">>

\* an answer of a handler: its status and the fields of its JSON body
Answer(status, body) == [status |-> status, body |-> body]

\* no answer yet
NoAnswer == Answer(0, <<>>)

\* main.py: the body of a turn the assistant returned
SuccessBody(t) ==
    [response |-> t.response, web_actions |-> t.web_actions,
     actions |-> t.web_actions, intent |-> t.intent,
     suggested_artworks |-> t.names, status |-> "success", agent_used |-> TRUE]

\* main.py: the body of a turn whose assistant call raised
ErrorBody ==
    [response |-> TECHNICAL_TXT, web_actions |-> <<>>, intent |-> "general_info",
     suggested_artworks |-> <<>>, status |-> "error", agent_used |-> FALSE]

\* main.py: what _chat_handler answers without streaming
MainAnswer(t) ==
    IF t.raised THEN Answer(200, ErrorBody) ELSE Answer(200, SuccessBody(t))

\* lambda_function.py: what lambda_handler answers to a chat request
LambdaFunctionAnswer(t) ==
    IF t.raised
    THEN Answer(500, [response |-> TECHNICAL_TXT, web_actions |-> <<>>,
                      intent |-> "general_info", suggested_artworks |-> <<>>,
                      status |-> "error", agent_used |-> FALSE,
                      success |-> FALSE, error |-> "exception"])
    ELSE Answer(200, [response |-> t.response, web_actions |-> t.web_actions,
                      intent |-> t.intent, suggested_artworks |-> t.names,
                      success |-> TRUE])

\* lambda/lambda_function.py: what lambda_handler answers to a chat request
LambdaAnswer(t) ==
    IF t.raised
    THEN Answer(500, [response |-> TECHNICAL_TXT, web_actions |-> <<>>,
                      intent |-> "general_info", suggested_artworks |-> <<>>,
                      status |-> "error", agent_used |-> FALSE,
                      success |-> FALSE, error |-> "exception"])
    ELSE Answer(200, [response |-> t.response, web_actions |-> t.web_actions,
                      actions |-> t.web_actions, intent |-> t.intent,
                      suggested_artworks |-> t.names, status |-> "success",
                      agent_used |-> TRUE, success |-> TRUE])

\* a handler that lets every message through
NoMessageCheck_Never(d, message) == FALSE

\* the test each handler makes before it calls anything: app.py refuses a
\* falsy message, the other handlers strip the message first
NoMessageCheck(d, message) ==
    IF d = "app" THEN message = EMPTY ELSE Strip(message) = EMPTY

\* what each handler answers to a chat request without a message
NoMessage(d) ==
    IF d \in {"agents", "app"}
    THEN Answer(400, [error |-> "No message provided"])
    ELSE Answer(400, [success |-> FALSE, error |-> "Missing 'message' in body"])

\* lambda/lambda_function.py: the streaming branch calls process_message_stream,
\* which the assistant of lambda/utils.py does not have
NoStream == Answer(500, [success |-> FALSE, error |-> "no attribute"])

\* app.py: what chat() answers
ChatAnswer(status, t) ==
    CASE status = 200 ->
           Answer(200, [response |-> t.response, web_actions |-> t.web_actions,
                        art_suggestions |-> <<>>, status |-> "success",
                        agent_used |-> FALSE])
      [] status = 400 -> NoMessage("app")
      [] status = 401 -> Answer(401, [error |-> "Invalid API key"])
      [] status = 429 -> Answer(429, [error |-> "Rate limit exceeded"])
      [] OTHER -> Answer(500, [error |-> "OpenAI API error"])

\* the health endpoints: what each backend reports as inventory_loaded
InventoryLoaded(d, text, names) ==
    CASE d \in {"agents", "app"} -> text # NOT_FOUND_TXT
      [] d = "utils" -> Len(Join(text, <<"\n">>)) > 0
      [] OTHER -> Len(names) > 0

HealthAnswer(d, text, names) ==
    Answer(200, [status |-> "healthy",
                 inventory_loaded |-> InventoryLoaded(d, text, names)])

\* ------------------------------------------- the search tool, tabulated

\* the queries the planner hands to search_inventory
Queries == {RED}

\* the name lists utils.py may hold
InventoryNameLists ==
    {_parse_inventory_names(ART_TXT), _parse_inventory_names(NO_INVENTORY_TXT)}

\* the values recommended_history may have: inventory names, none twice
Histories ==
    LET known == UNION {Range(n) : n \in InventoryNameLists}
    IN {h \in SeqsUpTo(known, Cardinality(known)) :
           \A i, j \in 1..Len(h) : h[i] = h[j] => i = j}

\* _search_inventory_tool over the replies above, computed once
SearchTable ==
    Tabulated([query \in Queries, reply \in SearchReplies,
               names \in InventoryNameLists, history \in Histories |->
                  _search_inventory_tool(query, reply, names, history)])

\* Replies that leave the same text and the same fields behind give the same
\* step: of the replies with one outcome, the one that is tried
DistinctReplies ==
    Tabulated([query \in Queries, names \in InventoryNameLists, history \in Histories |->
                  LET Outcome(r) == SearchTable[query, r, names, history]
                      First(r) == CHOOSE same \in SearchReplies : Outcome(same) = Outcome(r)
                  IN {First(r) : r \in SearchReplies}])

\* --------------------------------------------------- the inventory index

\* the number of digits a text starts with
DigitRun(s) ==
    LET nondigit == {i \in 1..Len(s) : s[i] \notin DIGITS}
    IN IF nondigit = {} THEN Len(s)
       ELSE (CHOOSE i \in nondigit : \A j \in nondigit : i <= j) - 1

\* int() of a run of digits
RECURSIVE DigitsValue(_)
DigitsValue(ds) ==
    LET DigitValue(c) == CHOOSE v \in 0..9 : <<"0","1","2","3","4","5","6","7","8","9">>[v + 1] = c
    IN IF ds = <<>> THEN 0
       ELSE 10 * DigitsValue(SubSeq(ds, 1, Len(ds) - 1)) + DigitValue(ds[Len(ds)])

\* float() of the digits before and after the point, in hundredths; exact for
\* the prices with at most two decimals
FloatOf(units, decimals) ==
    100 * DigitsValue(units)
    + DigitsValue(SubSeq(decimals \o <<"0", "0">>, 1, 2))

\* utils.py: re.match of one line against
\*     \s*\d+\.\s*([^\-\n]+?)\s*-\s*\$(\d+\.?\d*)\s*\(([^\)]+)\)\s*-\s*(.*)$
\* piece by piece, as the set of the entries the line adds to the index: one
\* entry, or none when a piece does not match.  The name group holds no "-"
\* and the country group no ")", so each ends at the first one; the price is
\* the longest run of digits, an optional point and the digits after it.

\* ... \s*-\s*(.*)$ : the entry of the line
MatchRaw(name, price, country, last_dash) ==
    IF last_dash # <<>> /\ last_dash[1] = "-"
    THEN {[name |-> name,
           record |-> [country |-> country, price |-> price,
                       raw |-> Strip(Tail(last_dash))]]}
    ELSE {}

\* ... ([^\)]+)\) : the country is what stands before the first ")"
MatchCountry(name, price, inside, close) ==
    IF close >= 2
    THEN UNION {MatchRaw(name, price, Strip(SubSeq(inside, 1, close - 1)), last_dash) :
                   last_dash \in {LStrip(SubSeq(inside, close + 1, Len(inside)))}}
    ELSE {}

\* ... \s*\( : the parenthesis opens
MatchOpen(name, price, open) ==
    IF open # <<>> /\ open[1] = "("
    THEN UNION {MatchCountry(name, price, inside, Find(inside, <<")">>)) :
                   inside \in {Tail(open)}}
    ELSE {}

\* ... \d* : the digits after the point, and the price is float() of the group
MatchDecimals(name, units, after_point, f) ==
    UNION {MatchOpen(name, FloatOf(units, SubSeq(after_point, 1, f)), open) :
              open \in {LStrip(SubSeq(after_point, f + 1, Len(after_point)))}}

\* ... (\d+\.? : at least one digit, and a point if one follows
MatchPrice(name, amount, u) ==
    IF u >= 1
    THEN UNION {MatchDecimals(name, SubSeq(amount, 1, u), after_point,
                              DigitRun(after_point)) :
                   after_point \in {SubSeq(amount,
                                           u + 1 + (IF u < Len(amount) /\ amount[u + 1] = "."
                                                    THEN 1 ELSE 0),
                                           Len(amount))}}
    ELSE {}

\* ... \s*\$ : the dollar sign
MatchDollar(name, dollar) ==
    IF dollar # <<>> /\ dollar[1] = "$"
    THEN UNION {MatchPrice(name, amount, DigitRun(amount)) : amount \in {Tail(dollar)}}
    ELSE {}

\* ... \s*([^\-\n]+?)\s*- : the name is what stands before the first "-",
\* stripped; one character at least stands there
MatchName(rest, dash) ==
    IF dash >= 2
    THEN UNION {MatchDollar(name, dollar) :
                   name \in {Strip(SubSeq(rest, 1, dash - 1))},
                   dollar \in {LStrip(SubSeq(rest, dash + 1, Len(rest)))}}
    ELSE {}

\* \s*\d+\. : the ordinal and its point
MatchOrdinal(s, d) ==
    IF d >= 2 /\ d <= Len(s) /\ s[d] = "."
    THEN UNION {MatchName(rest, Find(rest, <<"-">>)) : rest \in {SubSeq(s, d + 1, Len(s))}}
    ELSE {}

IndexEntriesOfLine(line) ==
    UNION {MatchOrdinal(s, DigitRun(s) + 1) : s \in {LStrip(line)}}

\* utils.py: _build_inventory_index: a later line replaces the record an
\* earlier line gave the same name
_build_inventory_index(text) ==
    LET entries == UNION {{[line |-> i, name |-> e.name, record |-> e.record] :
                              e \in IndexEntriesOfLine(text[i])} : i \in 1..Len(text)}
        Last(n) == CHOOSE e \in entries :
                      /\ e.name = n
                      /\ \A later \in entries : later.name = n => later.line <= e.line
    IN [n \in {e.name : e \in entries} |-> Last(n).record]

\* the number of lines of the inventory texts an assistant is built from
MaxLines == 2

\* "A-b", an artwork name with a hyphen
HYPHENATED == <<"A","-","b">>

PERU == <<"P","e","r","u">>

\* the fields of the lines in the documented format: a price is its text and
\* the number it writes, in hundredths
LineNames == {GAZE, HYPHENATED}

LinePrices ==
    {[text |-> <<"9">>, hundredths |-> 900],
     [text |-> <<"7",".","5">>, hundredths |-> 750]}

\* utils.py: the documented line format,
\*     '1. Chrome Velocity - $2900.0 (Netherlands) - ...'
FormattedLine(ordinal, name, price, country, description) ==
    ordinal \o SEP_DOT \o name \o SEP_DASH \o <<"$">> \o price \o <<" ", "(">>
    \o country \o <<")">> \o SEP_DASH \o description

FormattedLines ==
    {FormattedLine(<<"1">>, name, price.text, PERU, RED) :
        name \in LineNames, price \in LinePrices}

\* the other lines of a text: a numbered line without a price, a line of the
\* format without its blanks, a line of the keywords section, an empty line
\*     1. Gaze - red
\*      2.Iris-$8.(Mali)-
\*     Countries: Peru
OtherLines ==
    {<<"1","."," ","G","a","z","e"," ","-"," ","r","e","d">>,
     <<" ","2",".","I","r","i","s","-","$","8",".","(","M","a","l","i",")","-">>,
     <<"C","o","u","n","t","r","i","e","s",":"," ","P","e","r","u">>,
     <<>>}

\* the inventory texts an assistant may be given
InventoryTexts == SeqsUpTo(FormattedLines \cup OtherLines, MaxLines)
\* ----------------------------------------------------------------- state

VARIABLES
    deployment,             \* which backend this process is
    file_found,             \* whether art.txt was there to read at start-up
    inventory_text,         \* the inventory text read at start-up, by line
    artwork_names,          \* agents.py, lambda/utils.py: self.artwork_names
    inventory_names,        \* utils.py: self.inventory_names
    inventory_index,        \* utils.py: self.inventory_index
    kws_order,              \* app.py: the iteration order of the keyword set
    last_search_artworks,   \* utils.py: self._last_search_artworks
    recommended_history,    \* utils.py: self.recommended_history
    memory,                 \* self.memory: the stored messages, oldest first
    own_search_artworks,    \* utils.py: artwork_names[:6] of the one request's latest
                            \* search, as the call wrote it to _last_search_artworks
    other,                  \* where a second request on the same assistant is
    pc,                     \* "idle", or the call in progress
    steps,                  \* the intermediate steps of the turn in progress or just finished
    turn,                   \* the result of the last finished turn
    events,                 \* the events the last streaming turn yielded
    llm,                    \* the LLM replies the last finished turn consumed
    request,                \* the last request a handler took
    http_status,            \* the status of the handler's answer, 0 if none
    http_body               \* the fields of the JSON body of that answer

vars ==
    <<deployment, file_found, inventory_text, artwork_names, inventory_names,
      inventory_index, kws_order, last_search_artworks, recommended_history,
      own_search_artworks, memory, other, pc, steps, turn, events, llm, request,
      http_status, http_body>>

\* what the steps of the one request leave alone: what start-up built, and
\* the second request
fixed ==
    <<deployment, file_found, inventory_text, artwork_names, inventory_names,
      inventory_index, kws_order, other>>

\* the answer the handler gave
answer == <<http_status, http_body>>

\* a request: the path it came to and the message of its body
Request(path, message) == [path |-> path, message |-> message]

NoRequest == Request("none", EMPTY)

\* the handler answers
Respond(a) == http_status' = a.status /\ http_body' = a.body

utils_state == <<last_search_artworks, recommended_history>>

\* a stored message: the request it belongs to and who spoke
Entry(of, role) == [request |-> of, role |-> role]

\* the memory after the agent's run of a request ended: the executor stores
\* the user's message and the agent's answer; nothing is ever taken out
save_context(chat_memory, of) ==
    chat_memory \o <<Entry(of, "human"), Entry(of, "ai")>>

\* the memory after a run whose agent raised or returned
Saved(agent_raised) == IF agent_raised THEN memory ELSE save_context(memory, "own")

Deployments == {"agents", "utils", "lambda", "app"}

\* the text each backend substitutes for a missing art.txt
Sentinel(d) == IF d = "utils" THEN NO_INVENTORY_TXT ELSE NOT_FOUND_TXT

Init ==
    /\ deployment \in Deployments
    /\ file_found \in BOOLEAN
    /\ inventory_text = IF file_found THEN ART_TXT ELSE Sentinel(deployment)
    /\ artwork_names = IF deployment \in {"agents", "lambda"}
                       THEN _extract_artwork_names(inventory_text) ELSE <<>>
    /\ inventory_names = IF deployment = "utils"
                         THEN _parse_inventory_names(inventory_text) ELSE <<>>
    /\ inventory_index = IF deployment = "utils"
                         THEN _build_inventory_index(inventory_text) ELSE <<>>
    /\ kws_order \in IF deployment = "app" THEN KeywordOrders[inventory_text]
                     ELSE {<<>>}
    /\ last_search_artworks = <<>>
    /\ recommended_history = <<>>
    /\ memory = <<>>
    /\ own_search_artworks = <<>>
    /\ other = "none"
    /\ pc = "idle"
    /\ steps = <<>>
    /\ turn = NoTurn
    /\ events = <<>>
    /\ llm = <<>>
    /\ request = NoRequest
    /\ http_status = 0
    /\ http_body = <<>>

\* the calls each backend's handler may make on its assistant
Calls(d) ==
    CASE d = "agents" -> {"process_message", "process_message_stream"}
      [] d = "utils" -> {"process_message"}
      [] d = "lambda" -> {"process_message", "process_message_stream"}
      [] OTHER -> {}

\* main.py, lambda_function.py, lambda/lambda_function.py: a chat request
\* arrives (the model takes no more requests once the memory is over its
\* budget).  The handler strips the message and answers 400 when nothing is
\* left; otherwise it calls the assistant, whose agent starts its run.  The
\* streaming branch of lambda/lambda_function.py calls a method its assistant
\* does not have and answers 500.
Invoke(call, message) ==
    /\ pc = "idle"
    /\ call \in Calls(deployment)
    /\ Len(memory) <= MemoryBudget
    /\ request' = Request(call, message)
    /\ steps' = <<>>
    /\ turn' = NoTurn
    /\ events' = <<>>
    /\ llm' = <<>>
    /\ IF NoMessageCheck(deployment, message)
       THEN pc' = "idle" /\ Respond(NoMessage(deployment))
       ELSE IF deployment = "lambda" /\ call = "process_message_stream"
       THEN pc' = "idle" /\ Respond(NoStream)
       ELSE pc' = call /\ Respond(NoAnswer)
    /\ own_search_artworks' = <<>>
    /\ UNCHANGED <<fixed, utils_state, memory>>

\* agents.py, lambda/utils.py: the agent calls a tool, which changes nothing,
\* and the executor records the step
AgentToolCall(step) ==
    /\ deployment \in {"agents", "lambda"}
    /\ pc # "idle"
    /\ Len(steps) < MaxSteps
    /\ deployment = "lambda" => step.tool = "search_inventory"
    /\ steps' = Append(steps, step)
    /\ UNCHANGED <<fixed, utils_state, own_search_artworks, memory, pc, turn, events, llm,
                   request, answer>>

\* the replies of the classification call
ClassifyCalls == LLMReplies(ClassifierReplies)

\* agents.py: _process_message_sync runs to its end.  When the agent raised,
\* result is unbound and reading it raises.  main.py: _chat_handler answers
\* with the turn, or with the error body when the call raised.
_process_message_sync ==
    /\ deployment = "agents"
    /\ pc = "process_message"
    /\ \E agent \in LLMReplies(ReplyTexts), classify_reply \in ClassifyCalls :
        LET response_text == IF agent.raised THEN TROUBLE_TXT \o ERR ELSE agent.content
            intent == ClassifyTable[response_text, artwork_names, classify_reply]
        IN \E extract_reply \in ExtractionCalls(intent) :
            LET names == ExtractedNames(intent, extract_reply)
            IN /\ turn' = IF agent.raised THEN Raised("sync")
                          ELSE Turn("sync", names, intent, response_text,
                                    SyncActions(response_text, steps, names, intent))
               /\ llm' = <<agent, classify_reply>>
                         \o (IF extract_reply = NoCall THEN <<>> ELSE <<extract_reply>>)
               /\ memory' = Saved(agent.raised)
    /\ pc' = "idle"
    /\ Respond(MainAnswer(turn'))
    /\ UNCHANGED <<fixed, utils_state, own_search_artworks, steps, events, request>>

\* agents.py: process_message_stream fails: the agent raised, no other call
\* is made and the one event is the error
StreamFailed ==
    LET error_response == TROUBLE_TXT \o ERR
    IN /\ turn' = Turn("stream", <<>>, "general_info", error_response, <<>>)
       /\ events' = <<ErrorEvent(error_response)>>
       /\ llm' = <<[raised |-> TRUE, content |-> EMPTY]>>
       /\ memory' = Saved(TRUE)

\* agents.py: process_message_stream yields its events for the agent's answer
StreamAnswered ==
    \E response_text \in ReplyTexts, classify_reply \in ClassifyCalls :
        LET intent == ClassifyTable[response_text, artwork_names, classify_reply]
        IN \E extract_reply \in ExtractionCalls(intent) :
            LET names == ExtractedNames(intent, extract_reply)
                web_actions == StreamActions(steps, names, intent)
            IN /\ turn' = Turn("stream", names, intent, response_text, web_actions)
               /\ events' = StreamEvents(response_text, intent, names, web_actions)
               /\ llm' = <<[raised |-> FALSE, content |-> response_text], classify_reply>>
                         \o (IF extract_reply = NoCall THEN <<>> ELSE <<extract_reply>>)
               /\ memory' = Saved(FALSE)

\* agents.py: process_message_stream runs to its end; main.py: the handler
\* sends each event as it is yielded
process_message_stream ==
    /\ deployment = "agents"
    /\ pc = "process_message_stream"
    /\ StreamFailed \/ StreamAnswered
    /\ pc' = "idle"
    /\ Respond(Answer(200, [events |-> events']))
    /\ UNCHANGED <<fixed, utils_state, own_search_artworks, steps, request>>

\* lambda/utils.py: process_message runs to its end; its result has no
\* web_actions.  lambda/lambda_function.py: the handler answers with the turn.
lambda_process_message ==
    /\ deployment = "lambda"
    /\ pc = "process_message"
    /\ \E agent \in LLMReplies(ReplyTexts), classify_reply \in ClassifyCalls :
        LET response_text == IF agent.raised THEN TROUBLE_TXT \o ERR ELSE agent.content
            intent == ClassifyTable[response_text, artwork_names, classify_reply]
        IN \E extract_reply \in ExtractionCalls(intent) :
            /\ turn' = Turn("lambda", ExtractedNames(intent, extract_reply), intent,
                            response_text, <<>>)
            /\ llm' = <<agent, classify_reply>>
                      \o (IF extract_reply = NoCall THEN <<>> ELSE <<extract_reply>>)
            /\ memory' = Saved(agent.raised)
    /\ pc' = "idle"
    /\ Respond(LambdaAnswer(turn'))
    /\ UNCHANGED <<fixed, utils_state, own_search_artworks, steps, events, request>>

\* utils.py: the planner calls a tool other than the search, which changes
\* nothing, and the executor records the step
UtilsToolCall(step) ==
    /\ deployment = "utils"
    /\ pc = "process_message"
    /\ Len(steps) < MaxSteps
    /\ steps' = Append(steps, step)
    /\ UNCHANGED <<fixed, utils_state, own_search_artworks, memory, pc, turn, events, llm,
                   request, answer>>

\* utils.py: the planner calls search_inventory; the tool runs and the
\* executor records the step with the text the tool returned (and, here, the
\* LLM invocations the tool made)
SearchToolCall(query, reply) ==
    LET result == SearchTable[query, reply, inventory_names, recommended_history]
    IN /\ deployment = "utils"
       /\ pc = "process_message"
       /\ Len(steps) < MaxSteps
       /\ last_search_artworks' = result.last
       /\ recommended_history' = result.history
       /\ steps' = Append(steps, [tool |-> "search_inventory", arg |-> query,
                                  observation |-> result.observation,
                                  invocations |-> result.invocations])
       /\ own_search_artworks' = result.last
       /\ UNCHANGED <<fixed, memory, pc, turn, events, llm, request, answer>>

\* utils.py: process_message runs to its end; lambda_function.py: the handler
\* answers with the turn
utils_process_message(agent) ==
    LET web_actions == UtilsActions(steps, last_search_artworks)
        intent == IF HasType(web_actions, {"search"}) THEN "art_suggestion"
                  ELSE "general_info"
    IN /\ deployment = "utils"
       /\ pc = "process_message"
       /\ turn' = IF agent.raised
                  THEN Turn("utils", <<>>, "general_info", ENCOUNTERED_PRE \o ERR, <<>>)
                  ELSE Turn("utils", last_search_artworks, intent,
                            UtilsResponse(agent.content, steps), web_actions)
       /\ llm' = <<agent>>
       /\ memory' = Saved(agent.raised)
       /\ pc' = "idle"
       /\ Respond(LambdaFunctionAnswer(turn'))
       /\ UNCHANGED <<fixed, utils_state, own_search_artworks, steps, events, request>>

\* app.py: the two OpenAI calls of chat(): the second is made only when the
\* first returned
ChatCalls ==
    {<<first>> : first \in {c \in Completions(FirstPassTexts) : c.raised}}
    \cup {<<first, second>> : first \in {c \in Completions(FirstPassTexts) : ~c.raised},
                              second \in Completions(KeywordReplies)}

\* app.py: chat() answers one request.  A request without a message is
\* refused before any call; the keyword extraction raises on an inventory
\* without the keywords header; an error of either OpenAI call is answered
\* with its status and a body that has only an error field.
chat(message) ==
    /\ deployment = "app"
    /\ pc = "idle"
    /\ \E calls \in IF NoMessageCheck(deployment, message)
                       \/ KeywordsOf[inventory_text].raised
                    THEN {<<>>} ELSE ChatCalls :
        LET last == calls[Len(calls)]
            status == IF NoMessageCheck(deployment, message) THEN 400
                      ELSE IF KeywordsOf[inventory_text].raised THEN 500
                      ELSE IF last.raised THEN ErrorStatus(last.content)
                      ELSE 200
        IN /\ turn' = IF status = 200
                      THEN Turn("chat", <<>>, "none", Strip(calls[1].content),
                                KeywordActions(KeywordTable[calls[2].content, kws_order]))
                      ELSE [NoTurn EXCEPT !.variant = "chat"]
           /\ llm' = calls
           /\ Respond(ChatAnswer(status, turn'))
    /\ request' = Request("chat", message)
    /\ UNCHANGED <<fixed, utils_state, own_search_artworks, memory, pc, steps, events>>

\* app.py: parse_search_triggers is applied to a text
parse_search_triggers(response_text) ==
    /\ deployment = "app"
    /\ pc = "idle"
    /\ turn' = IF KeywordsOf[inventory_text].raised THEN Raised("triggers")
               ELSE Turn("triggers", <<>>, "none", response_text,
                         TriggerTable[response_text, kws_order])
    /\ llm' = <<>>
    /\ request' = NoRequest
    /\ Respond(NoAnswer)
    /\ UNCHANGED <<fixed, utils_state, own_search_artworks, memory, pc, steps, events>>

\* the health endpoint of each backend answers
health ==
    /\ pc = "idle"
    /\ request' = Request("health", EMPTY)
    /\ Respond(HealthAnswer(deployment, inventory_text, artwork_names))
    /\ steps' = <<>>
    /\ turn' = NoTurn
    /\ events' = <<>>
    /\ llm' = <<>>
    /\ UNCHANGED <<fixed, utils_state, own_search_artworks, memory, pc>>

Next ==
    \/ \E call \in {"process_message", "process_message_stream"}, message \in Messages :
          Invoke(call, message)
    \/ \E step \in AgentSteps : AgentToolCall(step)
    \/ _process_message_sync
    \/ process_message_stream
    \/ lambda_process_message
    \/ \E step \in UtilsSteps : UtilsToolCall(step)
    \/ \E query \in Queries :
          \E reply \in DistinctReplies[query, inventory_names, recommended_history] :
              SearchToolCall(query, reply)
    \/ \E agent \in LLMReplies(PlannerTexts) : utils_process_message(agent)
    \/ \E message \in Messages : chat(message)
    \/ \E text \in TriggerTexts : parse_search_triggers(text)
    \/ health

Spec == Init /\ [][Next]_vars

\* ------------------------------- two requests at once on one assistant

\* main.py serves each request on a thread of its own and every thread calls
\* the one assistant of the module; nothing in agents.py or utils.py takes a
\* lock.  The second request is followed only where it touches the
\* assistant, and only while the first is in progress: it arrives, its
\* searches write the two search fields, and when its agent has answered the
\* executor stores its two messages, one append after the other.
ConcurrentInit ==
    /\ Init
    /\ deployment \in {"agents", "utils"}
    /\ file_found

\* the second request arrives and its agent starts its run
OtherInvoke ==
    /\ pc # "idle"
    /\ other = "none"
    /\ other' = "running"
    /\ UNCHANGED <<deployment, file_found, inventory_text, artwork_names,
                   inventory_names, inventory_index, kws_order, utils_state,
                   own_search_artworks, memory,
                   pc, steps, turn, events, llm, request, answer>>

\* utils.py: the planner of the second request calls search_inventory
OtherSearchToolCall(query, reply) ==
    LET result == SearchTable[query, reply, inventory_names, recommended_history]
    IN /\ deployment = "utils"
       /\ pc # "idle"
       /\ other = "running"
       /\ last_search_artworks' = result.last
       /\ recommended_history' = result.history
       /\ UNCHANGED <<deployment, file_found, inventory_text, artwork_names,
                      inventory_names, inventory_index, kws_order,
                      own_search_artworks, memory, other, pc, steps, turn, events, llm,
                      request, answer>>

\* the executor of the second request stores the user's message
OtherSaveHuman ==
    /\ pc # "idle"
    /\ other = "running"
    /\ memory' = Append(memory, Entry("other", "human"))
    /\ other' = "saving"
    /\ UNCHANGED <<deployment, file_found, inventory_text, artwork_names,
                   inventory_names, inventory_index, kws_order, utils_state,
                   own_search_artworks, pc,
                   steps, turn, events, llm, request, answer>>

\* the executor of the second request stores the agent's answer, and the
\* request is over
OtherSaveAi ==
    /\ pc # "idle"
    /\ other = "saving"
    /\ memory' = Append(memory, Entry("other", "ai"))
    /\ other' = "done"
    /\ UNCHANGED <<deployment, file_found, inventory_text, artwork_names,
                   inventory_names, inventory_index, kws_order, utils_state,
                   own_search_artworks, pc,
                   steps, turn, events, llm, request, answer>>

\* the one request and the second: each is the first its client makes
ConcurrentNext ==
    \/ \E call \in {"process_message", "process_message_stream"}, message \in Messages :
          request = NoRequest /\ Invoke(call, message)
    \/ \E step \in AgentSteps : AgentToolCall(step)
    \/ _process_message_sync
    \/ process_message_stream
    \/ \E step \in UtilsSteps : UtilsToolCall(step)
    \/ \E query \in Queries :
          \E reply \in DistinctReplies[query, inventory_names, recommended_history] :
              SearchToolCall(query, reply)
    \/ \E agent \in LLMReplies(PlannerTexts) : utils_process_message(agent)
    \/ OtherInvoke
    \/ \E query \in Queries :
          \E reply \in DistinctReplies[query, inventory_names, recommended_history] :
              OtherSearchToolCall(query, reply)
    \/ OtherSaveHuman
    \/ OtherSaveAi

ConcurrentSpec == ConcurrentInit /\ [][ConcurrentNext]_vars

\* ------------------------------------------- the parsing of any inventory

\* an assistant is about to be built from an inventory text
ParseInit ==
    /\ deployment \in {"agents", "utils", "lambda"}
    /\ file_found = TRUE
    /\ inventory_text \in InventoryTexts
    /\ artwork_names = <<>>
    /\ inventory_names = <<>>
    /\ inventory_index = <<>>
    /\ kws_order = <<>>
    /\ last_search_artworks = <<>>
    /\ recommended_history = <<>>
    /\ memory = <<>>
    /\ own_search_artworks = <<>>
    /\ other = "none"
    /\ pc = "start"
    /\ steps = <<>>
    /\ turn = NoTurn
    /\ events = <<>>
    /\ llm = <<>>
    /\ request = NoRequest
    /\ http_status = 0
    /\ http_body = <<>>

\* agents.py, utils.py, lambda/utils.py: ArtistryAssistant.__init__ parses the
\* inventory text it is given
ArtistryAssistant ==
    /\ pc = "start"
    /\ artwork_names' = IF deployment \in {"agents", "lambda"}
                        THEN _extract_artwork_names(inventory_text) ELSE <<>>
    /\ inventory_names' = IF deployment = "utils"
                          THEN _parse_inventory_names(inventory_text) ELSE <<>>
    /\ inventory_index' = IF deployment = "utils"
                          THEN _build_inventory_index(inventory_text) ELSE <<>>
    /\ pc' = "idle"
    /\ UNCHANGED <<deployment, file_found, inventory_text, kws_order, utils_state,
                   own_search_artworks,
                   memory, other, steps, turn, events, llm, request, answer>>

ParseNext == ArtistryAssistant

ParseSpec == ParseInit /\ [][ParseNext]_vars
\* ----------------------------------------------------------- properties

\* a call has returned its result
Returned == pc = "idle" /\ turn.variant # "none" /\ ~turn.raised

\* a call of an assistant that maps tool calls to web actions has returned
AssistantReturned == Returned /\ turn.variant \in {"sync", "stream", "utils"}

\* the names of the parsed inventory the running backend holds
ParsedNames == Range(artwork_names) \cup Range(inventory_names)

\* the positions of the actions of one type in a list
PositionsOf(web_actions, type) ==
    {i \in 1..Len(web_actions) : web_actions[i].type = type}

\* the values of the actions of one type in a list
ValuesOf(web_actions, type) ==
    {web_actions[i].value : i \in PositionsOf(web_actions, type)}

\* C1: in every returned turn, and in every event of a stream, each name of
\* the artwork list is the name of an artwork of the parsed inventory,
\* whatever the LLM replied
C1_NamesExistInInventory ==
    Returned =>
        /\ Range(turn.names) \subseteq ParsedNames
        /\ \A k \in 1..Len(events) :
              Range(events[k].suggested_artworks) \subseteq ParsedNames

\* a value that is a space-joined list of inventory names, as written or
\* lower-cased
GroundedNames(value) ==
    \E ns \in SeqsUpTo(ParsedNames, MaxArtworks) :
        ns # <<>> /\ value \in {Join(ns, SP), Lower(Join(ns, SP))}

\* C2: the value of every search action of every answer is grounded in the
\* inventory: a keyword of the inventory's vocabulary in app.py, a
\* space-joined list of inventory names in the assistants
C2_SearchValueGrounded ==
    Returned =>
        \A v \in ValuesOf(turn.web_actions, "search") :
            IF deployment = "app" THEN v \in Range(kws_order) ELSE GroundedNames(v)

\* a keyword validation has run: chat() answered a request after its second
\* call, or parse_search_triggers found a trigger line
ChatValidated == Returned /\ turn.variant = "chat" /\ http_status = 200

TriggerValidated ==
    Returned /\ turn.variant = "triggers" /\ TriggerTerm(turn.response) # None

\* the entries of the vocabulary, by position, that contain c or are
\* contained in c
RelatedPositions(c) ==
    {i \in 1..Len(kws_order) : Contains(kws_order[i], c) \/ Contains(c, kws_order[i])}

\* the first such entry in the vocabulary's iteration order
FirstRelated(c) ==
    kws_order[CHOOSE i \in RelatedPositions(c) : \A j \in RelatedPositions(c) : i <= j]

\* the actions of an accepted keyword, and of a rejected candidate
Accepted(keyword) == <<Action("search", keyword), Action("scroll", ART_COLLECTION)>>

Rejected == <<>>

\* the two-stage match on a candidate c; in the second stage an empty
\* candidate is set aside when guarded
TwoStage(c, guarded) ==
    IF c \in Range(kws_order) THEN Accepted(c)
    ELSE IF (guarded => c # EMPTY) /\ RelatedPositions(c) # {}
    THEN Accepted(FirstRelated(c))
    ELSE Rejected

\* C3 (as the code has it): with c the candidate stripped of blanks and
\* lower-cased, if c equals a vocabulary entry the result is c; otherwise, if
\* some entry contains c or is contained in c, the result is the first such
\* entry in the vocabulary's iteration order, where chat() sets an empty c
\* aside and parse_search_triggers does not; otherwise the candidate is
\* rejected.  The result is never outside the vocabulary, and "cheep" against
\* a vocabulary holding "cheap" is rejected.
C3_TwoStageMatch ==
    /\ ChatValidated =>
          LET c == Lower(Strip(llm[2].content))
          IN /\ turn.web_actions = TwoStage(c, TRUE)
             /\ c = <<"c","h","e","e","p">> => turn.web_actions = Rejected
    /\ TriggerValidated =>
          LET c == TriggerTerm(turn.response)[1]
          IN /\ turn.web_actions = TwoStage(c, FALSE)
             /\ c = <<"c","h","e","e","p">> => turn.web_actions = Rejected
    /\ ChatValidated \/ TriggerValidated =>
          ValuesOf(turn.web_actions, "search") \subseteq Range(kws_order)

\* C3: chat() validated a candidate that is part of several keywords and
\* accepted the first of them in iteration order
C3_Witness ==
    /\ ChatValidated
    /\ llm[2].content = <<"e">>
    /\ Cardinality(RelatedPositions(<<"e">>)) > 1
    /\ turn.web_actions = Accepted(FirstRelated(<<"e">>))

\* C3 (as stated): if the lower-cased candidate equals a vocabulary entry the
\* result is the candidate itself; otherwise, if some entry contains the
\* candidate or is contained in it, the result is the first such entry in
\* iteration order; otherwise the candidate is rejected
C3_AsStated ==
    ChatValidated =>
        LET candidate == llm[2].content
        IN turn.web_actions =
              IF Lower(candidate) \in Range(kws_order) THEN Accepted(candidate)
              ELSE IF RelatedPositions(candidate) # {}
              THEN Accepted(FirstRelated(candidate))
              ELSE Rejected

\* C4: every quick_view and add_to_cart action of a returned action list
\* carries the name of an artwork of the inventory; a tool call or marker
\* with any other name yields no action
C4_ArtworkActionsInInventory ==
    Returned =>
        (ValuesOf(turn.web_actions, "quick_view")
            \cup ValuesOf(turn.web_actions, "add_to_cart")) \subseteq ParsedNames

\* C5: every navigate action of a returned action list has value cart or
\* home; a navigate call with another destination is coerced to home or
\* yields no action
C5_NavigateCartOrHome ==
    Returned => ValuesOf(turn.web_actions, "navigate") \subseteq {CART, HOME}

\* the tools whose call is an explicit imperative of the user
ImperativeTools ==
    {"quick_view", "quick_view_artwork", "add_to_cart", "navigate", "go_to_cart",
     "go_to_home", "proceed_to_checkout", "checkout"}

\* the turn's tool calls include an imperative one
ImperativeCall == \E i \in 1..Len(steps) : steps[i].tool \in ImperativeTools

\* the turn's only tool call is add_to_cart with a name
AddToCartAlone ==
    Len(steps) = 1 /\ steps[1].tool = "add_to_cart" /\ steps[1].arg # EMPTY

\* C6: when an imperative tool call (add_to_cart, quick_view, navigate,
\* checkout) is present in a turn, the turn's action list has no search
\* action, even when names were extracted or a search was made; for an
\* add_to_cart call alone the list is exactly [add_to_cart(name)]
C6_ImperativeSuppressesSearch ==
    AssistantReturned /\ ~llm[1].raised =>
        /\ ImperativeCall => ~HasType(turn.web_actions, {"search"})
        /\ AddToCartAlone => turn.web_actions = <<Action("add_to_cart", steps[1].arg)>>

\* C7: when the list of extracted artwork names of a turn is empty, the
\* turn's action list, and that of every event of a stream, has no search
\* action
C7_NoNamesNoSearch ==
    AssistantReturned /\ turn.names = <<>> =>
        /\ ~HasType(turn.web_actions, {"search"})
        /\ \A k \in 1..Len(events) : ~HasType(events[k].web_actions, {"search"})

\* C7: a turn was classified as a suggestion, the extraction call was made
\* and listed no name, and the turn carries no search action
C7_Witness ==
    /\ AssistantReturned
    /\ turn.variant = "sync"
    /\ turn.intent \in {"art_suggestion", "both"}
    /\ Len(llm) = 3
    /\ turn.names = <<>>
    /\ ~HasType(turn.web_actions, {"search"})

\* C8: when no imperative action was produced, the intent is suggestion or
\* both, and at least one name was extracted, the action list has exactly one
\* search action, whose value is the extracted names joined by single spaces
\* and lower-cased, immediately followed by the list's only scroll action,
\* with value art-collection
C8_DefaultSearchAndScroll ==
    /\ AssistantReturned
    /\ ~HasType(turn.web_actions, IMPERATIVE)
    /\ turn.intent \in {"art_suggestion", "both"}
    /\ turn.names # <<>>
    => \E i \in 1..Len(turn.web_actions) :
          /\ PositionsOf(turn.web_actions, "search") = {i}
          /\ PositionsOf(turn.web_actions, "scroll") = {i + 1}
          /\ turn.web_actions[i].value = Lower(Join(turn.names, SP))
          /\ turn.web_actions[i + 1].value = ART_COLLECTION

\* C9: the action list of a turn has at most one search action, whatever
\* tool calls the LLM made
C9_AtMostOneSearch ==
    Returned => Cardinality(PositionsOf(turn.web_actions, "search")) <= 1

\* C10: the action list of a turn never has two actions with the same type
\* and the same value, even when the LLM made the same tool call twice
C10_NoDuplicateActions ==
    Returned =>
        \A i, j \in 1..Len(turn.web_actions) :
            turn.web_actions[i] = turn.web_actions[j] => i = j


\* a process_message call has ended, by returning or by raising, and the
\* first LLM call of its turn, the agent's, had raised
FirstCallRaised ==
    /\ pc = "idle"
    /\ turn.variant \in {"sync", "lambda", "utils"}
    /\ llm # <<>>
    /\ llm[1].raised

\* C11: when the agent call of a turn raises, process_message does not
\* raise: it returns a turn with a response text, intent general_info, no
\* artwork names and no actions
C11_FirstCallRaiseAbsorbed ==
    FirstCallRaised =>
        /\ ~turn.raised
        /\ turn.response # EMPTY
        /\ turn.intent = "general_info"
        /\ turn.names = <<>>
        /\ turn.web_actions = <<>>

\* a turn whose classification call was made has returned
Classified ==
    /\ Returned
    /\ turn.variant \in {"sync", "stream", "lambda"}
    /\ Len(llm) >= 2

\* the label the classification call returned, stripped and lower-cased as
\* the code reads it, or None when the call raised or returned another text
ReturnedLabel ==
    LET label == Lower(Strip(llm[2].content))
    IN IF ~llm[2].raised
          /\ label \in {ART_SUGGESTION_LABEL, GENERAL_INFO_LABEL, BOTH_LABEL}
       THEN Some(label) ELSE None

\* C12: the classification of a turn is one of the three labels whatever the
\* classification call returned or raised; it is both only when the call
\* returned that label, and a turn classified by the fallback is a
\* suggestion or general_info
C12_ClassificationClosed ==
    Classified =>
        /\ turn.intent \in {"art_suggestion", "general_info", "both"}
        /\ turn.intent = "both" => ReturnedLabel = Some(BOTH_LABEL)
        /\ ReturnedLabel = None =>
              turn.intent = FallbackIntent(turn.response, artwork_names)
        /\ ReturnedLabel = None => turn.intent \in {"art_suggestion", "general_info"}

\* C12: the classification call raised on a response that names an artwork,
\* and the fallback labelled the turn a suggestion
C12_Witness ==
    /\ Classified
    /\ llm[2].raised
    /\ turn.intent = "art_suggestion"

\* a chat request without a message was taken by a handler
NoMessageRequest ==
    /\ request.path \in {"process_message", "process_message_stream", "chat"}
    /\ request.message = EMPTY

\* C13: at each chat entry point a request whose message is empty or
\* missing is answered with a 4xx status and an error field, and no tool
\* call and no LLM call was made for it
C13_EmptyMessageRejected ==
    NoMessageRequest =>
        /\ pc = "idle"
        /\ http_status \in 400..499
        /\ "error" \in DOMAIN http_body
        /\ steps = <<>>
        /\ llm = <<>>

\* C13: the streaming entry point of main.py refused a request without a
\* message and made no call
C13_Witness ==
    /\ NoMessageRequest
    /\ deployment = "agents"
    /\ request.path = "process_message_stream"
    /\ http_status = 400
    /\ llm = <<>>

\* a chat request with a message was answered
ChatAnswered ==
    /\ pc = "idle"
    /\ request.path \in {"process_message", "process_message_stream", "chat"}
    /\ ~NoMessageCheck(deployment, request.message)

\* the exception the handler of the answered request caught: an
\* authentication error or a rate-limit error of app.py's OpenAI call, any
\* other exception, or none
CaughtFailure ==
    LET last == llm[Len(llm)]
    IN IF deployment = "app" /\ llm # <<>> /\ last.raised
       THEN IF last.content = ERR_AUTH THEN "authentication"
            ELSE IF last.content = ERR_RATE THEN "rate limit"
            ELSE "other"
       ELSE IF deployment = "app" /\ KeywordsOf[inventory_text].raised THEN "other"
       ELSE IF turn.raised THEN "other"
       ELSE IF deployment = "lambda" /\ request.path = "process_message_stream"
       THEN "other"
       ELSE "none"

\* a body of the normal shape that reports a failure: a response text, an
\* empty action list and a status or success field
DegradedShape(body) ==
    /\ {"response", "web_actions"} \subseteq DOMAIN body
    /\ body.web_actions = <<>>
    /\ {"status", "success"} \cap DOMAIN body # {}

\* C14: a chat request whose LLM call fails with an authentication error is
\* answered with status 401, one whose call fails with a rate-limit error
\* with 429, and every other failure the handler catches is answered with a
\* body of the normal shape: response text, empty web_actions and a status or
\* success field
C14_FailuresMapped ==
    ChatAnswered =>
        /\ CaughtFailure = "authentication" => http_status = 401
        /\ CaughtFailure = "rate limit" => http_status = 429
        /\ CaughtFailure = "other" => DegradedShape(http_body)

\* app.py started without its inventory file, and a chat request with a
\* message whose LLM calls did not fail was answered, or parse_search_triggers
\* was applied to a text
MissingInventoryUse ==
    /\ deployment = "app"
    /\ ~file_found
    /\ inventory_text = NOT_FOUND_TXT
    /\ \/ turn.variant = "triggers"
       \/ /\ turn.variant = "chat"
          /\ ~NoMessageCheck(deployment, request.message)
          /\ \A i \in 1..Len(llm) : ~llm[i].raised

\* C15: when the inventory file was absent at start-up, app.py runs on the
\* sentinel text, and every keyword extraction, validation and chat request
\* after that completes without raising and with no search action
C15_MissingInventoryNoMatches ==
    MissingInventoryUse =>
        /\ ~turn.raised
        /\ turn.variant = "chat" => http_status = 200
        /\ ~HasType(turn.web_actions, {"search"})

\* C16: the health endpoint reports inventory_loaded true exactly when the
\* inventory file was read at start-up, and false when the sentinel text
\* stands in for it
C16_HealthReportsInventory ==
    request.path = "health" => (http_body.inventory_loaded <=> file_found)

\* a streaming turn of agents.py has yielded its events
Streamed == Returned /\ turn.variant = "stream"

\* the positions of the events that carry actions
Carriers == {k \in 1..Len(events) : events[k].web_actions # <<>>}

\* C17: in a streaming turn the actions are computed before the first event:
\* an event carries either the whole action list or none of it, a turn with
\* actions has them in its first event, no event with chunk text comes
\* before the event that carries them, and at most one event carries them
C17_ActionsBeforeText ==
    Streamed =>
        /\ \A k \in Carriers : events[k].web_actions = turn.web_actions
        /\ turn.web_actions # <<>> /\ events # <<>> => 1 \in Carriers
        /\ \A k \in Carriers : \A j \in 1..(k - 1) : events[j].chunk = EMPTY
        /\ Cardinality(Carriers) <= 1

\* C17: a streaming turn with actions yielded the actions-only event and then
\* at least two word events
C17_Witness ==
    /\ Streamed
    /\ turn.web_actions # <<>>
    /\ Len(events) >= 3
    /\ events[1].web_actions = turn.web_actions
    /\ events[2].chunk # EMPTY

\* C18: in a streaming turn the event with is_complete true carries the whole
\* payload of the turn: its intent, its artwork names and every action
C18_FinalEventComplete ==
    Streamed =>
        \A k \in 1..Len(events) :
            events[k].is_complete =>
                /\ events[k].intent = Some(turn.intent)
                /\ events[k].suggested_artworks = turn.names
                /\ events[k].web_actions = turn.web_actions

\* C19: in a streaming turn every event with is_complete false has no
\* intent, no artwork names and no full_response
C19_PayloadOnlyOnFinal ==
    Streamed =>
        \A k \in 1..Len(events) :
            ~events[k].is_complete =>
                /\ events[k].intent = None
                /\ events[k].suggested_artworks = <<>>
                /\ events[k].full_response = None

\* a turn of an assistant has returned with intent general_info
GeneralInfoTurn ==
    /\ Returned
    /\ turn.variant \in {"sync", "stream", "lambda", "utils"}
    /\ turn.intent = "general_info"

\* C20: a turn whose intent is general_info has no artwork names and no
\* search action, also when an earlier turn of the same assistant ran a
\* search that returned artworks
C20_GeneralInfoNoArtworks ==
    GeneralInfoTurn =>
        /\ turn.names = <<>>
        /\ ~HasType(turn.web_actions, {"search"})

\* ------------------------------------------------- properties C21 .. C30

\* the backends whose assistant gives its memory a token limit
\* (agents.py: max_token_limit=2000, utils.py: max_token_limit=1000)
BudgetedMemory == deployment \in {"agents", "utils"}

\* C21: the conversation memory of an assistant is bounded: after any
\* sequence of turns the stored history is within its budget, the oldest
\* entries having been evicted when a turn was appended
C21_MemoryBounded ==
    BudgetedMemory => Len(memory) <= MemoryBudget

\* the LLM invocations of the turn in progress or just finished, each as
\* whether it raised: those of the searches of utils.py's planner, in the
\* order of the steps, and those the turn made itself
SearchSteps == {k \in 1..Len(steps) : "invocations" \in DOMAIN steps[k]}

TurnInvocations == [i \in 1..Len(llm) |-> llm[i].raised]

\* C23: an LLM call that fails is never retried and ends the LLM calls of
\* its turn: within one search and among the calls the turn makes itself, no
\* call is issued after a call raised
C23_FailedCallEndsCalls ==
    \A calls \in {steps[k].invocations : k \in SearchSteps} \cup {TurnInvocations} :
        \A i \in 1..Len(calls) : calls[i] => i = Len(calls)

\* the action types the front end knows
ActionTypes == {"search", "scroll", "quick_view", "add_to_cart", "navigate", "checkout"}

\* C24: every element of web_actions in every response is a {type, value}
\* pair: its type is one of the six action types and it has a value
C24_ActionsAreTypeValuePairs ==
    Returned =>
        \A k \in 1..Len(turn.web_actions) :
            /\ DOMAIN turn.web_actions[k] = {"type", "value"}
            /\ turn.web_actions[k].type \in ActionTypes

\* an assistant has been built from its inventory text
Built == pc = "idle"

\* the names the built assistant validates against
ValidationNames == Range(inventory_names) \cup Range(artwork_names)

\* the names one line contributes to the built assistant
NamesOfLine(line) ==
    IF deployment = "utils" THEN RegexNameOfLine(line) ELSE ExtractNameOfLine(line)

\* C25: inventory parsing accepts a line only if it matches the full pattern
\* <ordinal>. <name> - $<price> (<country>) - <description>: every name kept
\* for validation has a record in the index built from the same text, and a
\* line that does not match contributes neither a name nor a record
C25_NamesHaveRecords ==
    Built =>
        /\ ValidationNames \subseteq DOMAIN _build_inventory_index(inventory_text)
        /\ \A i \in 1..Len(inventory_text) :
              IndexEntriesOfLine(inventory_text[i]) = {} =>
                  NamesOfLine(inventory_text[i]) = <<>>

\* the record the index of utils.py holds for a line of the documented format
\* is the line's: the index has the line's name, with its price and country
RecordOfLine(name, price) ==
    /\ name \in DOMAIN inventory_index
    /\ inventory_index[name].price = price.hundredths
    /\ inventory_index[name].country = PERU

\* C26: round trip: a line in the documented format, parsed into a record,
\* gives back the name, the price and the country the line was written from
C26_RoundTrip ==
    \A name \in LineNames, price \in LinePrices :
        /\ Built
        /\ deployment = "utils"
        /\ inventory_text = <<FormattedLine(<<"1">>, name, price.text, PERU, RED)>>
        => RecordOfLine(name, price)

\* the positions of the events of the stream that are marked complete
CompleteEvents == {k \in 1..Len(events) : events[k].is_complete}

\* C27: a run of process_message_stream ends, whatever the LLM returned or
\* raised, with a sequence of events of which exactly one is marked complete,
\* and that one is the last; when the agent failed the stream is that one
\* event, with no actions, intent general_info and no artworks
C27_OneCompleteEventLast ==
    Streamed =>
        /\ CompleteEvents = {Len(events)}
        /\ events # <<>>
        /\ llm[1].raised =>
              /\ Len(events) = 1
              /\ events[1].web_actions = <<>>
              /\ events[1].intent = Some("general_info")
              /\ events[1].suggested_artworks = <<>>

\* a turn of agents.py, streaming or not, whose agent gave a reply has returned
AgentsTurn ==
    /\ Returned
    /\ turn.variant \in {"sync", "stream"}
    /\ Len(llm) >= 2
    /\ ~llm[1].raised

\* the reply of the extraction call of the returned turn, if it was made
ExtractionReply == IF Len(llm) >= 3 THEN llm[3] ELSE NoCall

\* C29: on the same user message and the same LLM outputs (reply text, tool
\* steps, classifier label, extracted names) process_message and
\* process_message_stream give the same intent, the same artwork list and the
\* same action list: what a returned turn of either holds is what each of the
\* two computes from those outputs
C29_StreamAgreesWithSync ==
    AgentsTurn =>
        /\ turn.intent = ClassifyTable[turn.response, artwork_names, llm[2]]
        /\ turn.names = ExtractedNames(turn.intent, ExtractionReply)
        /\ turn.web_actions = SyncActions(turn.response, steps, turn.names, turn.intent)
        /\ turn.web_actions = StreamActions(steps, turn.names, turn.intent)

\* the position of the latest search among the steps of the turn, 0 if none
LatestSearch ==
    IF SearchSteps = {} THEN 0
    ELSE CHOOSE k \in SearchSteps : \A j \in SearchSteps : j <= k

\* the latest search of the turn raised: its last LLM invocation did
LatestSearchRaised ==
    /\ LatestSearch # 0
    /\ LET calls == steps[LatestSearch].invocations IN calls[Len(calls)]

HumanEntries == {i \in 1..Len(memory) : memory[i].role = "human"}

\* C22: when two turns run at once on one assistant, their appends to the
\* conversation memory are serialized: the user's message of a turn and its
\* reply are stored next to each other and in order, with no entry of the
\* other turn between them
C22_AppendsSerialized ==
    \A i \in HumanEntries :
        i < Len(memory) => memory[i + 1] = Entry(memory[i].request, "ai")

\* a turn of utils.py that made a search of its own has returned
SearchedTurn ==
    /\ Returned
    /\ turn.variant = "utils"
    /\ ~llm[1].raised
    /\ LatestSearch # 0

\* the names the latest search of the turn's own validated
OwnNames == own_search_artworks

\* C28: when two requests run at once on one assistant, the artwork list of
\* a request and the value of its search action are the names its own
\* search validated, never names the other request wrote to
\* _last_search_artworks
C28_OwnSearchNames ==
    SearchedTurn =>
        /\ turn.names = OwnNames
        /\ \A k \in PositionsOf(turn.web_actions, "search") :
              turn.web_actions[k].value = Join(OwnNames, SP)
        /\ OwnNames = <<>> => ~HasType(turn.web_actions, {"search"})
====
